---- MODULE Spec2Model ----
(***************************************************************************)
(* State-machine model of src/rootbeer.py: the recursive installer         *)
(* (install_package), the artifact pipeline (download_and_verify_package), *)
(* the script executor (run_script) and the two strategies (vendor_install *)
(* and zip_install), driven by main.                                       *)
(*                                                                         *)
(* Strings whose contents the code inspects (checksums, file names,        *)
(* temporary names, extensions) are sequences of one-character strings.    *)
(* Script bodies are sequences of template tokens (see Format).            *)
(***************************************************************************)
EXTENDS Integers, Sequences, FiniteSets, TLC

VARIABLES
    world,     \* the remote world: the recipe repository (package name ->
               \* descriptor), and for each package the files in the
               \* archive at its location and the SHA-256 digest of the
               \* bytes at its location
    args,      \* the parsed command line: [package_name, action]
    mainpc,    \* position of main()
    stack,     \* the active install_package calls, innermost last
    exc,       \* the exception in flight ("none" when there is none)
    fs,        \* the temporary files and directories that exist
    nextId,    \* source of fresh temporary names
    trace      \* what has happened so far: fetches, downloads, child
               \* processes and log records, in order

vars == <<world, args, mainpc, stack, exc, fs, nextId, trace>>

-----------------------------------------------------------------------------
(* Bounds of the model *)

\* Depth of nested install_package calls at which the interpreter gives up
\* with RecursionError (the interpreter's recursion limit, scaled down).
MaxDepth == 5

\* Largest number of files in an archive listing.
MaxFiles == 2

-----------------------------------------------------------------------------
(* Strings *)

Range(s) == {s[i] : i \in DOMAIN s}

\* str.lower(), character by character
LowerChar(c) ==
    CASE c = "A" -> "a" [] c = "B" -> "b" [] c = "E" -> "e" [] c = "F" -> "f"
      [] c = "G" -> "g" [] c = "I" -> "i" [] c = "K" -> "k" [] c = "M" -> "m"
      [] c = "P" -> "p" [] c = "S" -> "s" [] c = "X" -> "x" [] c = "Z" -> "z"
      [] OTHER -> c

Lower(s) == [i \in DOMAIN s |-> LowerChar(s[i])]

\* str.endswith(suffix)
EndsWith(s, suffix) ==
    /\ Len(s) >= Len(suffix)
    /\ SubSeq(s, Len(s) - Len(suffix) + 1, Len(s)) = suffix

\* os.path.splitext(name)[-1]: the text from the last dot on, where dots
\* that lead the name do not count.
SplitExt(name) ==
    LET dots == {i \in DOMAIN name :
                    name[i] = "." /\ \E j \in 1..(i - 1) : name[j] # "."}
    IN  IF dots = {} THEN <<>>
        ELSE LET d == CHOOSE i \in dots : \A k \in dots : k <= i
             IN  SubSeq(name, d, Len(name))

\* All sequences over S of length at most n
SeqsUpTo(S, n) == UNION {[1..k -> S] : k \in 0..n}

-----------------------------------------------------------------------------
(* Script templates: str.format with the format context *)

\* A script body is a sequence of tokens:
\*   "lit"       text without braces
\*   "ph_pf"     the placeholder {package_file} (in the format context)
\*   "ph_x"      a placeholder that is not in the format context
\*   "esc_ph_pf" the escaped text {{package_file}}
\*   "esc_ph_x"  the escaped text {{...}} around a name not in the context
Tokens == {"lit", "ph_pf", "ph_x", "esc_ph_pf", "esc_ph_x"}

FormatToken(t) ==
    CASE t = "ph_pf"     -> "lit"      \* replaced by the artifact's path
      [] t = "esc_ph_pf" -> "ph_pf"    \* {{ }} becomes { }
      [] t = "esc_ph_x"  -> "ph_x"
      [] OTHER           -> t

\* str.format: KeyError on a placeholder missing from the context
Format(body) ==
    IF "ph_x" \in Range(body)
    THEN [ok |-> FALSE, val |-> <<>>]
    ELSE [ok |-> TRUE, val |-> [i \in DOMAIN body |-> FormatToken(body[i])]]

-----------------------------------------------------------------------------
(* The data model: class Package, and the remote world the program reads *)

Names == {"A", "B", "C", "D"}

Strategies == {"vendor_install", "zip_install", "unknown_strategy"}

Phases == <<"pre_install", "install", "post_install">>

\* Package.checksum: absent (empty, which the code treats as false), or a
\* hexadecimal digest in lower, upper or mixed case.
Checksums == {<<>>, <<"a", "f">>, <<"A", "F">>, <<"a", "F">>}

\* hashlib.sha256(...).hexdigest() of the downloaded bytes: lower case
Digests == {<<"a", "f">>, <<"b", "e">>}

\* Package.location
Locations == {<<"f", ".", "z", "i", "p">>, <<"f", ".", "e", "x", "e">>}

\* Script bodies a recipe may carry; <<>> is an absent or empty body.
ScriptBodies == {<<>>, <<"lit", "ph_pf">>, <<"ph_x">>, <<"esc_ph_x">>}

\* File names found in an archive
FileNames == {<<"a", ".", "e", "x", "e">>, <<"b", ".", "M", "s", "I">>,
              <<"r", ".", "t", "x", "t">>, <<".", "p", "k", "g">>}

\* The files of an extracted archive, in the order os.walk yields them
Listings == SeqsUpTo(FileNames, MaxFiles)

Package(n, strat, loc, sum, deps, pre, inst, post) ==
    [name |-> n, strategy |-> strat, location |-> loc, checksum |-> sum,
     install_dependencies |-> deps,
     pre_install |-> pre, install |-> inst, post_install |-> post]

\* Dependency graphs of the repository: the chain of the documentation's
\* example (A needs B and C, B needs D), a shared dependency, a repeated
\* name, two cycles, a chain and no dependencies at all.
DepGraphs ==
    {[n \in Names |-> CASE n = "A" -> <<"B", "C">> [] n = "B" -> <<"D">>
                        [] OTHER -> <<>>],
     [n \in Names |-> CASE n = "A" -> <<"B", "C">> [] n = "B" -> <<"D">>
                        [] n = "C" -> <<"D">> [] OTHER -> <<>>],
     [n \in Names |-> CASE n = "A" -> <<"B", "B">> [] OTHER -> <<>>],
     [n \in Names |-> CASE n = "A" -> <<"B">> [] n = "B" -> <<"A">>
                        [] OTHER -> <<>>],
     [n \in Names |-> CASE n = "A" -> <<"A">> [] OTHER -> <<>>],
     [n \in Names |-> CASE n = "A" -> <<"B">> [] n = "B" -> <<"C">>
                        [] n = "C" -> <<"D">> [] OTHER -> <<>>],
     [n \in Names |-> <<>>]}

\* A recipe with one install script and nothing else that is optional
PlainPackage(n, strat, deps) ==
    Package(n, strat, <<"f", ".", "e", "x", "e">>, <<>>, deps,
            <<>>, <<"lit", "ph_pf">>, <<>>)

PlainListing == <<<<"a", ".", "e", "x", "e">>>>

PlainDigest == <<"a", "f">>

\* Repositories whose packages depend on each other; every package has a
\* plain recipe and any of the strategies.
TreeWorlds ==
    {[repo |-> [n \in Names |-> PlainPackage(n, strat[n], g[n])],
      archive |-> [n \in Names |-> PlainListing],
      digest |-> [n \in Names |-> PlainDigest]] :
        g \in DepGraphs, strat \in [Names -> Strategies]}

\* Repositories in which package A has no dependencies and is installed by
\* vendor_install, with any checksum, location, content and script bodies.
VendorWorlds ==
    {[repo |-> [n \in Names |->
                  IF n = "A"
                  THEN Package(n, "vendor_install", loc, sum, <<>>,
                               sc[1], sc[2], sc[3])
                  ELSE PlainPackage(n, "vendor_install", <<>>)],
      archive |-> [n \in Names |-> PlainListing],
      digest |-> [n \in Names |-> IF n = "A" THEN d ELSE PlainDigest]] :
        loc \in Locations, sum \in Checksums, d \in Digests,
        sc \in [1..3 -> ScriptBodies]}

\* The same for zip_install, with any listing of the archive.
ZipWorlds ==
    {[repo |-> [n \in Names |->
                  IF n = "A"
                  THEN Package(n, "zip_install", <<"f", ".", "z", "i", "p">>,
                               sum, <<>>, sc[1], sc[2], sc[3])
                  ELSE PlainPackage(n, "vendor_install", <<>>)],
      archive |-> [n \in Names |-> IF n = "A" THEN l ELSE PlainListing],
      digest |-> [n \in Names |-> IF n = "A" THEN d ELSE PlainDigest]] :
        sum \in {<<>>, <<"a", "F">>}, d \in Digests,
        sc \in [1..3 -> ScriptBodies], l \in Listings}

Worlds == TreeWorlds \cup VendorWorlds \cup ZipWorlds

Actions == {"install", "uninstall"}

-----------------------------------------------------------------------------
(* Temporary resources and the record of what happened *)

\* tempfile's names: "tmp" and random characters from a-z, 0-9 and "_",
\* with no suffix unless the caller asks for one.
TempName(id) ==
    IF id % 2 = 0 THEN <<"t", "m", "p", "z", "i", "p">>
                  ELSE <<"t", "m", "p", "_", "g", "z">>

Resource(id, kind, role) == [id |-> id, kind |-> kind, role |-> role]

Event(ev, pkg, arg) == [ev |-> ev, pkg |-> pkg, arg |-> arg]

\* One active call of install_package
\*   pkg    the name of the package being installed
\*   i      the position of the dependency loop
\*   pc     where the call is: "deps", "download", "extract", a phase,
\*          "cleanup" or "done"
\*   file   the temporary artifact or directory the strategy holds
\*   ran    the phases whose child process the call has started
\*   began  the length of the record when the call began
Frame(pkg, began) ==
    [pkg |-> pkg, i |-> 1, pc |-> "deps", file |-> 0, ran |-> <<>>,
     began |-> began]

Recipe(n) == world.repo[n]

Archive(n) == world.archive[n]

Digest(n) == world.digest[n]

Top == stack[Len(stack)]

SetTop(f) == [stack EXCEPT ![Len(stack)] = f]

Pop == SubSeq(stack, 1, Len(stack) - 1)

Init ==
    /\ world \in Worlds
    /\ args \in [package_name : {"A"}, action : Actions]
    /\ mainpc = "fetch"
    /\ stack = <<>>
    /\ exc = "none"
    /\ fs = {}
    /\ nextId = 1
    /\ trace = <<>>

-----------------------------------------------------------------------------
(* Pure parts of the program *)

StatusCodes == {200, 404}

ExitCodes == {0, 1}

\* fetch_and_parse_recipe: an HTTP GET of <name>.json; any status other
\* than 200 raises ValueError, otherwise the parsed Package is returned.
fetch_and_parse_recipe(package_name, status) ==
    IF status # 200
    THEN [exc |-> "ValueError_recipe", package |-> Recipe(package_name)]
    ELSE [exc |-> "none", package |-> Recipe(package_name)]

\* The checksum test of download_and_verify_package: the digest of the
\* file against the declared checksum in lower case.
checksum_mismatch(checksum, file_hash) ==
    checksum # <<>> /\ file_hash # Lower(checksum)

\* A test that takes every downloaded file for an archive
is_archive_name_any(temp_name) == TRUE

\* The test that decides extraction: the name of the TEMPORARY file.
is_archive_name(temp_name) ==
    \/ EndsWith(temp_name, <<".", "z", "i", "p">>)
    \/ EndsWith(temp_name, <<".", "t", "a", "r", ".", "g", "z">>)

\* A checksum test that raises without removing the file
download_and_verify_package_no_remove(package, id, status, file_hash, extract_ok) ==
    LET temp_file == Resource(id, "file", "download")
        extracted == Resource(id, "dir", "extracted")
    IN  IF status # 200
        THEN [exc |-> "HTTPError", left |-> {temp_file}]
        ELSE IF checksum_mismatch(package.checksum, file_hash)
        THEN [exc |-> "ValueError_checksum", left |-> {temp_file}]
        ELSE IF is_archive_name(TempName(id))
        THEN IF extract_ok
             THEN [exc |-> "none", left |-> {extracted}]
             ELSE [exc |-> "BadArchive", left |-> {temp_file, extracted}]
        ELSE [exc |-> "none", left |-> {temp_file}]

\* download_and_verify_package(package) with the outcome of the transfer
\* (status), the digest of the bytes received and the outcome of an
\* extraction. id names the temporary file. The result: the exception
\* raised ("none" on return), the resources the call leaves behind, and
\* whether the returned path is the extracted directory.
download_and_verify_package(package, id, status, file_hash, extract_ok) ==
    LET temp_file == Resource(id, "file", "download")
        extracted == Resource(id, "dir", "extracted")
    IN  IF status # 200
        THEN [exc |-> "HTTPError", left |-> {temp_file}]
        ELSE IF checksum_mismatch(package.checksum, file_hash)
        THEN [exc |-> "ValueError_checksum", left |-> {}]
        ELSE IF is_archive_name(TempName(id))
        THEN IF extract_ok
             THEN [exc |-> "none", left |-> {extracted}]
             ELSE [exc |-> "BadArchive", left |-> {temp_file, extracted}]
        ELSE [exc |-> "none", left |-> {temp_file}]

\* subprocess.run without check=True: a non-zero exit is not an error
run_script_nocheck(script, id, code) ==
    LET script_file == Resource(id, "file", "script")
        text == Format(script)
    IN  IF ~text.ok
        THEN [exc |-> "KeyError", left |-> {script_file},
              started |-> FALSE, logged |-> FALSE]
        ELSE [exc |-> "none", left |-> {},
              started |-> TRUE, logged |-> FALSE]

\* run_script(script) with the exit code of the child process. id names
\* the temporary script file. The result: the exception raised, the
\* resources left behind, whether the child process was started and
\* whether run_script logged the failure itself.
run_script(script, id, code) ==
    LET script_file == Resource(id, "file", "script")
        text == Format(script)
    IN  IF ~text.ok
        THEN [exc |-> "KeyError", left |-> {script_file},
              started |-> FALSE, logged |-> FALSE]
        ELSE IF code # 0
        THEN [exc |-> "CalledProcessError", left |-> {script_file},
              started |-> TRUE, logged |-> TRUE]
        ELSE [exc |-> "none", left |-> {},
              started |-> TRUE, logged |-> FALSE]

Extensions == {<<".", "e", "x", "e">>, <<".", "m", "s", "i">>,
               <<".", "d", "m", "g">>, <<".", "p", "k", "g">>}

\* A test that takes any extension for an installer's
is_installer_any(file) == SplitExt(file) # <<>>

\* find_binary_file, line 323: the extension in lower case is recognised
is_installer(file) == Lower(SplitExt(file)) \in Extensions

\* find_binary_file: the position in the walk of the first file with a
\* recognised extension, 0 (None) when there is none.
find_binary_file(listing) ==
    LET hits == {i \in DOMAIN listing : is_installer(listing[i])}
    IN  IF hits = {} THEN 0
        ELSE CHOOSE i \in hits : \A k \in hits : i <= k

\* The loop taken from the end of the list
dependency_at_reversed(package, i) ==
    package.install_dependencies[Len(package.install_dependencies) - i + 1]

\* The dependency loop, line 163: the names in list order
dependency_at(package, i) == package.install_dependencies[i]

\* A dispatch whose last branch falls back to vendor_install
dispatch_lenient(strategy) ==
    IF strategy = "zip_install" THEN "extract" ELSE "download"

\* The dispatch of install_package, lines 169-174: where the call goes
dispatch(strategy) ==
    IF strategy = "vendor_install" THEN "download"
    ELSE IF strategy = "zip_install" THEN "extract"
    ELSE "raise"

\* An except clause that logs and does not raise again
swallow(e) == "none"

\* "raise" at the end of the except clause, line 180
reraise(e) == e

\* A directory made with mkdtemp and never removed
with_exit_leak(resources, held) == resources

\* Leaving "with tempfile.TemporaryDirectory()", line 350: the held
\* directory is removed from the resources
with_exit(resources, held) == resources \ held

\* A strategy that forgets the post-install phase
NextPhase_no_post(pc) ==
    CASE pc = "pre_install" -> "install"
      [] OTHER              -> "cleanup"

\* The order of the three "if package.<phase>" statements, lines 295-303
\* and 367-375
NextPhase(pc) ==
    CASE pc = "pre_install" -> "install"
      [] pc = "install"     -> "post_install"
      [] OTHER              -> "cleanup"

\* The resources a strategy holds for the call f: the artifact of
\* vendor_install, the scoped directory of zip_install.
Held(f) == {r \in fs : r.id = f.file /\ r.role # "script"}

\* os.path.isdir(package_file)
isdir(f) == \E r \in fs : r.id = f.file /\ r.kind = "dir"

\* A phase that hands the body to run_script as it is
script_phase_single_format(body, id, code) ==
    IF body = <<>>
    THEN [exc |-> "none", left |-> {}, started |-> FALSE, logged |-> FALSE,
          skipped |-> TRUE]
    ELSE [skipped |-> FALSE] @@ run_script(body, id, code)

\* One script phase of a strategy: "if package.<phase>: logger.info(...);
\* run_script(package.<phase>.format(...), ...)". The body is formatted
\* once by the strategy and once more inside run_script.
script_phase(body, id, code) ==
    IF body = <<>>
    THEN [exc |-> "none", left |-> {}, started |-> FALSE, logged |-> FALSE,
          skipped |-> TRUE]
    ELSE IF ~Format(body).ok
    THEN [exc |-> "KeyError", left |-> {}, started |-> FALSE,
          logged |-> FALSE, skipped |-> FALSE]
    ELSE [skipped |-> FALSE] @@ run_script(Format(body).val, id, code)

\* What a phase adds to the record
PhaseEvents(pkg, phase, code, r) ==
    (IF r.skipped THEN <<>> ELSE <<Event("log_info_phase", pkg, phase)>>)
    \o (IF r.started THEN <<Event("script", pkg, <<phase, code>>)>> ELSE <<>>)
    \o (IF r.logged THEN <<Event("log_error_script", "", "None")>> ELSE <<>>)

-----------------------------------------------------------------------------
(* The program *)

Running == exc = "none" /\ stack # <<>>

\* main, lines 383-385: parse the arguments and fetch the recipe
main_fetch ==
    /\ mainpc = "fetch"
    /\ \E status \in StatusCodes :
         LET r == fetch_and_parse_recipe(args.package_name, status)
         IN  /\ trace' = Append(trace,
                                Event("fetch", args.package_name, status))
             /\ exc' = r.exc
             /\ mainpc' = IF r.exc = "none" THEN "dispatch" ELSE "exit_err"
    /\ UNCHANGED <<world, args, stack, fs, nextId>>

\* A main whose uninstall branch does what the install branch does
main_dispatch_uninstall_installs ==
    /\ mainpc = "dispatch"
    /\ trace' = Append(trace, Event("logfile", args.package_name, ""))
    /\ stack' = <<Frame(args.package_name, Len(trace'))>>
    /\ mainpc' = "install"
    /\ UNCHANGED <<world, args, exc, fs, nextId>>

\* main, lines 387-395: configure the logger (which opens the log file)
\* and perform the action
main_dispatch ==
    /\ mainpc = "dispatch"
    /\ trace' = Append(trace, Event("logfile", args.package_name, ""))
    /\ IF args.action = "install"
       THEN /\ stack' = <<Frame(args.package_name, Len(trace'))>>
            /\ mainpc' = "install"
       ELSE /\ stack' = stack
            /\ mainpc' = "exit_ok"
    /\ UNCHANGED <<world, args, exc, fs, nextId>>

\* A dependency loop that passes over a name whose recipe was fetched
\* before (a visited set)
install_package_dependency_visited ==
    /\ Running
    /\ Top.pc = "deps"
    /\ Top.i <= Len(Recipe(Top.pkg).install_dependencies)
    /\ \E status \in StatusCodes :
         LET dependency_name == dependency_at(Recipe(Top.pkg), Top.i)
             r == fetch_and_parse_recipe(dependency_name, status)
             seen == \E j \in DOMAIN trace :
                        trace[j].ev = "fetch" /\ trace[j].pkg = dependency_name
         IN  IF seen
             THEN /\ trace' = trace
                  /\ exc' = "none"
                  /\ stack' = SetTop([Top EXCEPT !.i = @ + 1])
             ELSE /\ trace' = trace \o
                        <<Event("log_info_dep", Top.pkg, dependency_name),
                          Event("fetch", dependency_name, status)>>
                  /\ IF r.exc # "none"
                     THEN exc' = r.exc /\ stack' = stack
                     ELSE IF Len(stack) >= MaxDepth
                     THEN exc' = "RecursionError" /\ stack' = stack
                     ELSE /\ exc' = "none"
                          /\ stack' = Append(SetTop([Top EXCEPT !.i = @ + 1]),
                                             Frame(r.package.name, Len(trace')))
    /\ UNCHANGED <<world, args, mainpc, fs, nextId>>

\* install_package, lines 163-166: one turn of the dependency loop
install_package_dependency ==
    /\ Running
    /\ Top.pc = "deps"
    /\ Top.i <= Len(Recipe(Top.pkg).install_dependencies)
    /\ \E status \in StatusCodes :
         LET dependency_name == dependency_at(Recipe(Top.pkg), Top.i)
             r == fetch_and_parse_recipe(dependency_name, status)
         IN  /\ trace' = trace \o
                    <<Event("log_info_dep", Top.pkg, dependency_name),
                      Event("fetch", dependency_name, status)>>
             /\ IF r.exc # "none"
                THEN exc' = r.exc /\ stack' = stack
                ELSE IF Len(stack) >= MaxDepth
                THEN exc' = "RecursionError" /\ stack' = stack
                ELSE /\ exc' = "none"
                     /\ stack' = Append(SetTop([Top EXCEPT !.i = @ + 1]),
                                        Frame(r.package.name, Len(trace')))
    /\ UNCHANGED <<world, args, mainpc, fs, nextId>>

\* install_package, lines 168-174: the dispatch on the strategy
install_package_dispatch ==
    /\ Running
    /\ Top.pc = "deps"
    /\ Top.i > Len(Recipe(Top.pkg).install_dependencies)
    /\ trace' = Append(trace, Event("log_info_start", Top.pkg, ""))
    /\ LET to == dispatch(Recipe(Top.pkg).strategy)
       IN  IF to = "raise"
           THEN exc' = "ValueError_strategy" /\ stack' = stack
           ELSE exc' = "none" /\ stack' = SetTop([Top EXCEPT !.pc = to])
    /\ UNCHANGED <<world, args, mainpc, fs, nextId>>

\* vendor_install, line 288: download_and_verify_package
vendor_install_download ==
    /\ Running
    /\ Top.pc = "download"
    /\ \E status \in StatusCodes, extract_ok \in BOOLEAN :
         LET r == download_and_verify_package(Recipe(Top.pkg), nextId, status,
                                              Digest(Top.pkg), extract_ok)
         IN  /\ trace' = Append(trace, Event("download", Top.pkg, status))
             /\ fs' = fs \cup r.left
             /\ exc' = r.exc
             /\ stack' = IF r.exc = "none"
                         THEN SetTop([Top EXCEPT !.pc = "pre_install",
                                                 !.file = nextId])
                         ELSE stack
    /\ nextId' = nextId + 1
    /\ UNCHANGED <<world, args, mainpc>>

\* vendor_install, lines 295-303: one script phase. A failure leaves the
\* function at once; nothing of lines 304-307 runs.
vendor_install_phase ==
    /\ Running
    /\ Recipe(Top.pkg).strategy = "vendor_install"
    /\ Top.pc \in Range(Phases)
    /\ \E code \in ExitCodes :
         LET r == script_phase(Recipe(Top.pkg)[Top.pc], nextId, code)
             ran == IF r.started THEN Append(Top.ran, Top.pc) ELSE Top.ran
         IN  /\ trace' = trace \o PhaseEvents(Top.pkg, Top.pc, code, r)
             /\ fs' = fs \cup r.left
             /\ exc' = r.exc
             /\ stack' = IF r.exc = "none"
                         THEN SetTop([Top EXCEPT !.pc = NextPhase(@),
                                                 !.ran = ran])
                         ELSE SetTop([Top EXCEPT !.ran = ran])
             /\ nextId' = IF r.skipped THEN nextId ELSE nextId + 1
    /\ UNCHANGED <<world, args, mainpc>>

\* vendor_install, lines 304-307: remove the artifact
vendor_install_cleanup ==
    /\ Running
    /\ Recipe(Top.pkg).strategy = "vendor_install"
    /\ Top.pc = "cleanup"
    /\ fs' = IF isdir(Top)
             THEN {r \in fs : ~(r.id = Top.file /\ r.kind = "dir")}
             ELSE {r \in fs : ~(r.id = Top.file /\ r.kind = "file")}
    /\ stack' = SetTop([Top EXCEPT !.pc = "done"])
    /\ UNCHANGED <<world, args, mainpc, exc, nextId, trace>>

\* zip_install, lines 350-357: create the scoped directory, unpack the
\* archive into it and look for the installer. Leaving the with block by
\* an exception removes the directory.
zip_install_extract ==
    /\ Running
    /\ Top.pc = "extract"
    /\ \E extract_ok \in BOOLEAN :
         LET temp_dir == Resource(nextId, "dir", "zipdir")
             package_file == find_binary_file(Archive(Top.pkg))
         IN  /\ trace' = Append(trace, Event("extract", Top.pkg, extract_ok))
             /\ IF ~extract_ok
                THEN /\ exc' = "ReadError"
                     /\ fs' = with_exit(fs \cup {temp_dir}, {temp_dir})
                     /\ stack' = stack
                ELSE IF package_file = 0
                THEN /\ exc' = "ValueError_installer"
                     /\ fs' = with_exit(fs \cup {temp_dir}, {temp_dir})
                     /\ stack' = stack
                ELSE /\ exc' = "none"
                     /\ fs' = fs \cup {temp_dir}
                     /\ stack' = SetTop([Top EXCEPT !.pc = "pre_install",
                                                    !.file = nextId])
    /\ nextId' = nextId + 1
    /\ UNCHANGED <<world, args, mainpc>>

\* zip_install, lines 367-375: one script phase inside the with block
zip_install_phase ==
    /\ Running
    /\ Recipe(Top.pkg).strategy = "zip_install"
    /\ Top.pc \in Range(Phases)
    /\ \E code \in ExitCodes :
         LET r == script_phase(Recipe(Top.pkg)[Top.pc], nextId, code)
             ran == IF r.started THEN Append(Top.ran, Top.pc) ELSE Top.ran
         IN  /\ trace' = trace \o PhaseEvents(Top.pkg, Top.pc, code, r)
             /\ exc' = r.exc
             /\ fs' = IF r.exc = "none" THEN fs \cup r.left
                      ELSE with_exit(fs, Held(Top)) \cup r.left
             /\ stack' = IF r.exc = "none"
                         THEN SetTop([Top EXCEPT !.pc = NextPhase(@),
                                                 !.ran = ran])
                         ELSE SetTop([Top EXCEPT !.ran = ran])
             /\ nextId' = IF r.skipped THEN nextId ELSE nextId + 1
    /\ UNCHANGED <<world, args, mainpc>>

\* zip_install, line 350: the with block ends and its directory goes
zip_install_exit ==
    /\ Running
    /\ Recipe(Top.pkg).strategy = "zip_install"
    /\ Top.pc = "cleanup"
    /\ fs' = with_exit(fs, Held(Top))
    /\ stack' = SetTop([Top EXCEPT !.pc = "done"])
    /\ UNCHANGED <<world, args, mainpc, exc, nextId, trace>>

\* install_package, line 176: log the success and return
install_package_return ==
    /\ Running
    /\ Top.pc = "done"
    /\ trace' = Append(trace, Event("log_info_ok", Top.pkg, ""))
    /\ stack' = Pop
    /\ mainpc' = IF Len(stack) = 1 THEN "exit_ok" ELSE mainpc
    /\ UNCHANGED <<world, args, exc, fs, nextId>>

\* The success message moved into a finally clause: logged on failure too
install_package_except_finally ==
    /\ exc # "none"
    /\ stack # <<>>
    /\ trace' = trace \o <<Event("log_error", Top.pkg, exc),
                           Event("log_info_ok", Top.pkg, "")>>
    /\ stack' = Pop
    /\ exc' = reraise(exc)
    /\ mainpc' = IF Len(stack) = 1 THEN "exit_err" ELSE mainpc
    /\ UNCHANGED <<world, args, fs, nextId>>

\* An except clause that names the logger's package, the root, in place
\* of the package of the call
install_package_except_root_name ==
    /\ exc # "none"
    /\ stack # <<>>
    /\ trace' = Append(trace, Event("log_error", args.package_name, exc))
    /\ stack' = Pop
    /\ exc' = reraise(exc)
    /\ mainpc' = IF Len(stack) = 1 THEN "exit_err" ELSE mainpc
    /\ UNCHANGED <<world, args, fs, nextId>>

\* install_package, lines 178-180: log the failure and raise it again;
\* out of the outermost call it ends main
install_package_except ==
    /\ exc # "none"
    /\ stack # <<>>
    /\ trace' = Append(trace, Event("log_error", Top.pkg, exc))
    /\ stack' = Pop
    /\ exc' = reraise(exc)
    /\ mainpc' = IF Len(stack) = 1 THEN "exit_err" ELSE mainpc
    /\ UNCHANGED <<world, args, fs, nextId>>

Next ==
    \/ main_fetch
    \/ main_dispatch
    \/ install_package_dependency
    \/ install_package_dispatch
    \/ vendor_install_download
    \/ vendor_install_phase
    \/ vendor_install_cleanup
    \/ zip_install_extract
    \/ zip_install_phase
    \/ zip_install_exit
    \/ install_package_return
    \/ install_package_except

Spec == Init /\ [][Next]_vars

\* The program is one thread that runs to completion: whenever a step is
\* possible, a step is taken.
FairSpec == Spec /\ WF_vars(Next)

-----------------------------------------------------------------------------
(* Properties *)

IsPrefix(s, t) == Len(s) <= Len(t) /\ SubSeq(t, 1, Len(s)) = s

Frames == {stack[k] : k \in DOMAIN stack}

IsVendor(f) == Recipe(f.pkg).strategy = "vendor_install"

IsZip(f) == Recipe(f.pkg).strategy = "zip_install"

IsUnknown(f) == Recipe(f.pkg).strategy \notin {"vendor_install", "zip_install"}

\* The calls of the documentation's example: A needs B and C, B needs D
ExampleGraph ==
    /\ Recipe("A").install_dependencies = <<"B", "C">>
    /\ Recipe("B").install_dependencies = <<"D">>
    /\ Recipe("C").install_dependencies = <<>>
    /\ Recipe("D").install_dependencies = <<>>

\* The starts and completions of install_package in the record
InstallEvents ==
    LET sel == SelectSeq(trace, LAMBDA e : e.ev \in {"log_info_start", "log_info_ok"})
    IN  [j \in DOMAIN sel |-> <<sel[j].ev, sel[j].pkg>>]

StrategyStarts ==
    LET sel == SelectSeq(trace, LAMBDA e : e.ev = "log_info_start")
    IN  [j \in DOMAIN sel |-> sel[j].pkg]

\* The depth-first order: every dependency, in list order, started and
\* completed with its own dependencies before it, then the package.
RECURSIVE DepthFirst(_, _)
RECURSIVE DepthFirstList(_, _, _)
DepthFirst(n, depth) ==
    IF depth = 0 THEN <<>>
    ELSE DepthFirstList(Recipe(n).install_dependencies, 1, depth - 1)
         \o << <<"log_info_start", n>>, <<"log_info_ok", n>> >>
DepthFirstList(deps, k, depth) ==
    IF k > Len(deps) THEN <<>>
    ELSE DepthFirst(deps[k], depth) \o DepthFirstList(deps, k + 1, depth)

\* C1: dependency installation is depth-first and sequential: the starts
\* and completions of the strategies follow the depth-first order of the
\* dependency lists, so a package starts only after each of its
\* dependencies, in list order, has completed; for A needing [B, C] and B
\* needing [D] the strategies run in the order D, B, C, A.
C1_DepthFirst ==
    /\ IsPrefix(InstallEvents, DepthFirst(args.package_name, MaxDepth))
    /\ (ExampleGraph /\ mainpc = "exit_ok" /\ args.action = "install")
          => StrategyStarts = <<"D", "B", "C", "A">>

C1_Witness ==
    /\ ExampleGraph
    /\ mainpc = "exit_ok"
    /\ StrategyStarts = <<"D", "B", "C", "A">>

ChecksumDiffers(p) ==
    p.checksum # <<>> /\ Lower(Digest(p.name)) # Lower(p.checksum)

\* C2: for every descriptor with a checksum, whatever its strategy, when
\* the content's hash differs from the checksum (compared without regard
\* to case) the installation never gets past obtaining the content and no
\* script phase of the package runs.
C2_ChecksumGuardsScripts ==
    \A f \in Frames :
        ChecksumDiffers(Recipe(f.pkg)) =>
            f.ran = <<>> /\ f.pc \in {"deps", "download", "extract"}

\* Network reads and child processes in the record after position n
ActivitySince(n) ==
    {j \in (n + 1)..Len(trace) :
        trace[j].ev \in {"fetch", "download", "script"}}

\* C3 as stated: a call of install_package with an unsupported strategy
\* performs no network read and runs no script, for every value of
\* install_dependencies.
C3_NoActivityAnyDeps ==
    \A f \in Frames : IsUnknown(f) => ActivitySince(f.began) = {}

\* C3 amended: a call with an unsupported strategy never downloads an
\* artifact, extracts or runs a script of its package; when its
\* install_dependencies is empty it performs no network read and runs no
\* script at all and fails with the unsupported-strategy error.
C3_NoActivityNoDeps ==
    \A f \in Frames :
        IsUnknown(f) =>
            /\ f.pc = "deps" /\ f.ran = <<>> /\ f.file = 0
            /\ Recipe(f.pkg).install_dependencies = <<>> =>
                  /\ ActivitySince(f.began) = {}
                  /\ exc \in {"none", "ValueError_strategy"}

C3_Witness ==
    /\ stack # <<>>
    /\ IsUnknown(Top)
    /\ Recipe(Top.pkg).install_dependencies = <<>>
    /\ exc = "ValueError_strategy"

\* C4: the artifact obtained by vendor_install is gone once vendor_install
\* has exited, by return or by a failure of a script phase.
C4_ArtifactRemoved ==
    \A f \in Frames :
        (IsVendor(f) /\ f.file # 0 /\ (f.pc = "done" \/ exc # "none"))
            => Held(f) = {}

NonEmptyPhases(p) == SelectSeq(Phases, LAMBDA ph : p[ph] # <<>>)

\* C5: a vendor_install of a descriptor without checksum that returns has
\* run exactly the non-empty phases, each once, in the order pre-install,
\* install, post-install, and has removed the artifact; on the way the
\* phases run are always a prefix of that list.
C5_VendorPhases ==
    \A f \in Frames :
        (IsVendor(f) /\ Recipe(f.pkg).checksum = <<>>) =>
            /\ IsPrefix(f.ran, NonEmptyPhases(Recipe(f.pkg)))
            /\ f.pc = "done" =>
                  /\ f.ran = NonEmptyPhases(Recipe(f.pkg))
                  /\ Held(f) = {}

C5_Witness ==
    /\ stack # <<>>
    /\ IsVendor(Top)
    /\ Recipe(Top.pkg).checksum = <<>>
    /\ Recipe(Top.pkg).pre_install = <<>>
    /\ Top.pc = "done"
    /\ Top.ran = <<"install", "post_install">>
    /\ Top.file # 0

\* C6: the temporary script file of run_script does not outlive the call,
\* whether it returns or raises.
C6_ScriptFileDeleted == \A r \in fs : r.role # "script"

\* C7: a failure aborts the whole install: while an exception is in
\* flight it stays the same exception, every step only logs the failure of
\* the innermost call and leaves it (no fetch, download, extraction,
\* script or strategy start follows), and no call below the failing one
\* has started its strategy.
C7_FailureAborts ==
    /\ [](exc # "none" =>
            \A k \in 1..(Len(stack) - 1) : stack[k].pc = "deps")
    /\ [][exc # "none" =>
            /\ exc' = exc
            /\ stack' = SubSeq(stack, 1, Len(stack) - 1)
            /\ \A j \in (Len(trace) + 1)..Len(trace') :
                  trace'[j].ev = "log_error"
            /\ fs' = fs]_vars

C7_Witness ==
    /\ mainpc = "exit_err"
    /\ \E i, j \in DOMAIN trace :
          /\ i < j
          /\ trace[i].ev = "log_info_ok"
          /\ trace[j].ev = "log_error" /\ trace[j].pkg # "A"
    /\ trace[Len(trace)] = Event("log_error", "A", exc)

PhaseIndex(ph) == CHOOSE i \in DOMAIN Phases : Phases[i] = ph

\* C8: within one strategy run a failing phase ends the run: a child
\* process that exits non-zero is the last one started, and a call that
\* failed in a phase has run no later phase.
C8_PhaseFailureStops ==
    /\ \A j, k \in DOMAIN trace :
          (j < k /\ trace[j].ev = "script" /\ trace[j].arg[2] # 0)
              => trace[k].ev # "script"
    /\ \A f \in Frames :
          (exc # "none" /\ f.pc \in Range(Phases)) =>
              \A ph \in Range(f.ran) : PhaseIndex(ph) <= PhaseIndex(f.pc)

C8_Witness ==
    /\ stack # <<>>
    /\ exc = "CalledProcessError"
    /\ Top.pc = "pre_install"
    /\ Recipe(Top.pkg).install # <<>>
    /\ Recipe(Top.pkg).post_install # <<>>

InsideZipWith ==
    /\ Running
    /\ IsZip(Top)
    /\ Top.pc \in Range(Phases) \cup {"cleanup"}

\* C9: the scoped directory of zip_install exists only while zip_install
\* is inside its with block: after any exit, by return or by exception,
\* it is gone.
C9_ZipDirReleased ==
    ~InsideZipWith => \A r \in fs : r.role # "zipdir"

C9_Witness ==
    /\ stack # <<>>
    /\ IsZip(Top)
    /\ exc = "CalledProcessError"
    /\ Top.pc = "post_install"

\* No file of the listing has a name that ends, case ignored, in one of
\* the installer extensions
NoInstallerIn(listing) ==
    \A i \in DOMAIN listing :
        \A e \in {<<".", "e", "x", "e">>, <<".", "m", "s", "i">>,
                  <<".", "d", "m", "g">>, <<".", "p", "k", "g">>} :
            ~EndsWith(Lower(listing[i]), e)

\* C10: a zip_install whose extracted archive holds no file with an
\* installer extension fails with the installer-not-found error once the
\* archive is extracted, runs no script phase and leaves no extraction
\* directory.
C10_InstallerNotFound ==
    \A f \in Frames :
        (IsZip(f) /\ NoInstallerIn(Archive(f.pkg))) =>
            /\ f.pc \in {"deps", "extract"}
            /\ f.ran = <<>>
            /\ \A r \in fs : r.role # "zipdir"
            /\ (trace # <<>> /\ trace[Len(trace)] = Event("extract", f.pkg, TRUE))
                  => exc = "ValueError_installer"

C10_Witness ==
    /\ stack # <<>>
    /\ IsZip(Top)
    /\ Archive(Top.pkg) # <<>>
    /\ NoInstallerIn(Archive(Top.pkg))
    /\ exc = "ValueError_installer"

\* What the latest call of download_and_verify_package has left on disk
LastDownloadLeft ==
    {r \in fs : r.id = nextId - 1 /\ r.role \in {"download", "extracted"}}

\* C11: when download_and_verify_package fails with a checksum mismatch,
\* the temporary file that held the downloaded bytes is gone: nothing the
\* call created remains.
C11_MismatchDeletesFile ==
    exc = "ValueError_checksum" => LastDownloadLeft = {}

C11_Witness ==
    /\ stack # <<>>
    /\ exc = "ValueError_checksum"
    /\ Top.pc = "download"
    /\ Recipe(Top.pkg).checksum = <<"A", "F">>
    /\ trace[Len(trace)] = Event("download", Top.pkg, 200)

IsArchiveLocation(location) ==
    \/ EndsWith(location, <<".", "z", "i", "p">>)
    \/ EndsWith(location, <<".", "t", "a", "r", ".", "g", "z">>)

\* C12: for a vendor_install descriptor the artifact handed to the script
\* phases is the extracted directory exactly when the location names a
\* known archive (.zip, .tar.gz), and the raw downloaded file otherwise.
C12_ArchiveExtracted ==
    \A f \in Frames :
        (IsVendor(f) /\ f.file # 0 /\ f.pc \in Range(Phases)) =>
            (isdir(f) <=> IsArchiveLocation(Recipe(f.pkg).location))

C14_DownloadFailureDeletesFile ==
    exc = "HTTPError" => LastDownloadLeft = {}

\* C15 as stated: with the action uninstall the program succeeds for every
\* package name, reads nothing from the network, runs nothing and creates
\* no file.
C15_UninstallNoEffect ==
    args.action = "uninstall" =>
        /\ trace = <<>>
        /\ mainpc # "exit_err"
        /\ stack = <<>> /\ fs = {}

\* C15 amended: with the action uninstall, main first fetches the recipe
\* of the package and, when that succeeds, configures the logger, which
\* opens the log file; the uninstall branch itself does nothing: no
\* install_package call, download, extraction, script or temporary file,
\* and the program succeeds exactly when the recipe fetch succeeded.
C15_UninstallStub ==
    args.action = "uninstall" =>
        /\ stack = <<>> /\ fs = {} /\ nextId = 1
        /\ \A j \in DOMAIN trace : trace[j].ev \in {"fetch", "logfile"}
        /\ mainpc = "exit_ok" =>
              trace = <<Event("fetch", args.package_name, 200),
                        Event("logfile", args.package_name, "")>>
        /\ mainpc = "exit_err" =>
              /\ Len(trace) = 1
              /\ trace[1].ev = "fetch" /\ trace[1].arg # 200

C15_Witness ==
    /\ args.action = "uninstall"
    /\ mainpc = "exit_ok"
    /\ Len(trace) = 2

DepsOf(n) == Range(Recipe(n).install_dependencies)

RECURSIVE Reach(_, _)
Reach(S, k) ==
    IF k = 0 THEN S ELSE Reach(S \cup UNION {DepsOf(n) : n \in S}, k - 1)

\* The packages reachable from n through install_dependencies
ReachableFrom(n) == Reach(DepsOf(n), Cardinality(Names))

OnCycle(n) == n \in ReachableFrom(n)

Acyclic(n) == \A m \in {n} \cup ReachableFrom(n) : ~OnCycle(m)

Terminated == mainpc \in {"exit_ok", "exit_err"}

\* Every external step so far has succeeded
AllStepsSucceeded ==
    \A j \in DOMAIN trace :
        /\ trace[j].ev \in {"fetch", "download"} => trace[j].arg = 200
        /\ trace[j].ev = "extract" => trace[j].arg = TRUE
        /\ trace[j].ev = "script" => trace[j].arg[2] = 0

\* C16: the program always terminates; over an acyclic dependency graph it
\* does so without a stack-depth failure. A package that is reachable from
\* itself never has its strategy dispatched, an install rooted in such a
\* package never succeeds, and when every external step succeeds and no
\* strategy was dispatched it ends by the stack-depth failure.
C16_Termination ==
    /\ <>Terminated
    /\ [](Acyclic(args.package_name) => exc # "RecursionError")
    /\ [](\A j \in DOMAIN trace :
            trace[j].ev = "log_info_start" => ~OnCycle(trace[j].pkg))
    /\ []((args.action = "install" /\ OnCycle(args.package_name)) =>
            /\ mainpc # "exit_ok"
            /\ (mainpc = "exit_err" /\ AllStepsSucceeded
                  /\ StrategyStarts = <<>>) => exc = "RecursionError")

C16_Witness ==
    /\ OnCycle(args.package_name)
    /\ Recipe("A").install_dependencies = <<"B">>
    /\ mainpc = "exit_err"
    /\ exc = "RecursionError"
    /\ AllStepsSucceeded

\* The positions of the error-severity records: those of install_package
\* ("log_error") and the one run_script writes ("log_error_script")
ErrorPositions ==
    {j \in DOMAIN trace : trace[j].ev \in {"log_error", "log_error_script"}}

InstallErrorPositions == {j \in DOMAIN trace : trace[j].ev = "log_error"}

InstallErrors == SelectSeq(trace, LAMBDA e : e.ev = "log_error")

First(S) == CHOOSE j \in S : \A k \in S : j <= k

\* The package whose own step failed, read off the record before the
\* error record at position j: the package of the step, or, for a failed
\* dependency fetch or a child-process error record, of the record before.
OriginatorAt(j) ==
    IF trace[j - 1].ev \in {"fetch", "log_error_script"}
    THEN trace[j - 2].pkg
    ELSE trace[j - 1].pkg

\* C17 as stated: the first error-severity record names the package whose
\* own step failed.
C17_FirstErrorNamesPackage ==
    ErrorPositions # {} =>
        /\ trace[First(ErrorPositions)].ev = "log_error"
        /\ trace[First(ErrorPositions)].pkg = OriginatorAt(First(ErrorPositions))

\* C17 amended: a failure inside install_package is logged at error
\* severity before it surfaces: the first failure record of
\* install_package names the package whose own step failed, every record
\* carries the same error, each next record is the caller's (innermost
\* first), nothing else is recorded in between, and the last one, before
\* main ends, is the root's. (run_script writes one more error record
\* before these when a child process fails, and it names no package.)
C17_FailureLogged ==
    /\ exc = "none" => ErrorPositions = {}
    /\ InstallErrorPositions # {} =>
          /\ trace[First(InstallErrorPositions)].pkg
                = OriginatorAt(First(InstallErrorPositions))
          /\ InstallErrorPositions
                = First(InstallErrorPositions)..Len(trace)
          /\ \A j \in DOMAIN InstallErrors : InstallErrors[j].arg = exc
          /\ \A j \in 1..(Len(InstallErrors) - 1) :
                InstallErrors[j].pkg \in DepsOf(InstallErrors[j + 1].pkg)
          /\ stack # <<>> =>
                InstallErrors[Len(InstallErrors)].pkg \in DepsOf(Top.pkg)
    /\ (mainpc = "exit_err" /\ Len(trace) > 1) =>
          /\ InstallErrors # <<>>
          /\ InstallErrors[Len(InstallErrors)].pkg = args.package_name

C17_Witness ==
    /\ mainpc = "exit_err"
    /\ exc = "CalledProcessError"
    /\ Len(InstallErrors) = 3
    /\ InstallErrors[1].pkg = "D"
    /\ trace[First(ErrorPositions)].ev = "log_error_script"

Count(ev, n) ==
    Cardinality({j \in DOMAIN trace : trace[j].ev = ev /\ trace[j].pkg = n})

\* How often n occurs in the depth-first traversal from the root
Occurrences(n) ==
    LET order == DepthFirst(args.package_name, MaxDepth)
    IN  Cardinality({j \in DOMAIN order : order[j] = <<"log_info_start", n>>})

\* C18: nothing is cached: after a successful install every package has
\* been fetched, and its strategy with its script phases run, once for
\* each of its occurrences in the depth-first traversal.
C18_NoCaching ==
    (mainpc = "exit_ok" /\ args.action = "install") =>
        \A n \in Names :
            /\ Count("fetch", n) = Occurrences(n)
            /\ Count("log_info_start", n) = Occurrences(n)
            /\ Count("script", n)
                  = Occurrences(n) * Len(NonEmptyPhases(Recipe(n)))
            /\ Count("download", n) + Count("extract", n) = Occurrences(n)

C18_Witness ==
    /\ mainpc = "exit_ok"
    /\ args.action = "install"
    /\ Recipe("A").install_dependencies = <<"B", "C">>
    /\ Recipe("C").install_dependencies = <<"D">>
    /\ Count("fetch", "D") = 2
    /\ Count("script", "D") = 2

RunsPhases(f) == IsVendor(f) \/ IsZip(f)

\* C19: a phase whose body holds a placeholder that is not in the format
\* context never starts a child process; the call never gets past that
\* phase, and when it fails there it fails with the formatting error and
\* leaves no temporary script file.
C19_TemplateError ==
    \A f \in Frames : \A i \in DOMAIN Phases :
        (RunsPhases(f) /\ "ph_x" \in Range(Recipe(f.pkg)[Phases[i]])) =>
            /\ Phases[i] \notin Range(f.ran)
            /\ f.pc \notin {"cleanup", "done"}
            /\ f.pc \in Range(Phases) => PhaseIndex(f.pc) <= i
            /\ (f.pc = Phases[i] /\ exc # "none") =>
                  /\ exc = "KeyError"
                  /\ \A r \in fs : ~(r.id = nextId - 1 /\ r.role = "script")

C19_Witness ==
    /\ stack # <<>>
    /\ exc = "KeyError"
    /\ Top.pc = "install"
    /\ Recipe(Top.pkg).install = <<"ph_x">>
    /\ Recipe(Top.pkg).post_install # <<>>
    /\ Top.ran = <<"pre_install">>

Outcomes == {"log_info_ok", "log_error"}

\* C20: every call of install_package logs exactly one outcome for its
\* package, as it ends: the success message when its dependencies and its
\* strategy have returned, the failure message when an exception is in
\* flight, never both and never earlier; and a success message is
\* preceded by the success message of each dependency of the package.
C20_OneOutcome ==
    /\ [][Len(stack') < Len(stack) =>
            \E e \in {Event("log_info_ok", Top.pkg, ""),
                      Event("log_error", Top.pkg, exc)} :
                /\ trace' = Append(trace, e)
                /\ e.ev = "log_info_ok" <=> (exc = "none" /\ Top.pc = "done")]_vars
    /\ [][Len(stack') >= Len(stack) =>
            \A j \in (Len(trace) + 1)..Len(trace') :
                trace'[j].ev \notin Outcomes]_vars
    /\ [](\A j \in DOMAIN trace :
            trace[j].ev = "log_info_ok" =>
                \A d \in DepsOf(trace[j].pkg) :
                    \E k \in 1..(j - 1) :
                        trace[k] = Event("log_info_ok", d, ""))

C20_Witness ==
    /\ ExampleGraph
    /\ mainpc = "exit_err"
    /\ Count("log_info_ok", "D") = 1
    /\ Count("log_info_ok", "B") = 1
    /\ Count("log_error", "C") = 1
    /\ Count("log_error", "A") = 1
    /\ Count("log_info_ok", "A") = 0

====
